---- MODULE Spec2Model ----
(***************************************************************************)
(* Model of src/controllers/posts-controller.ts: the request handlers      *)
(* createPost, editPost, deletePost and createComment running as           *)
(* concurrent asynchronous requests against one MongoDB store through      *)
(* mongoose.  Every `await` of a handler is one step of the request, so    *)
(* other requests interleave exactly where the code suspends.              *)
(*                                                                         *)
(* Store semantics the handlers rely on (mongoose / MongoDB):              *)
(*  - findById returns null when no document matches; it throws only when  *)
(*    the store fails.                                                     *)
(*  - a write given { session } belongs to the session's transaction: it   *)
(*    is invisible to readers until commitTransaction, it takes a write    *)
(*    lock on the document, and it fails with a write conflict when the    *)
(*    document is locked by another open transaction or was changed by a   *)
(*    commit after the transaction's snapshot (taken at its first write).  *)
(*  - doc.save() of a loaded document sends only the changes made to it:   *)
(*    array.push / array.pull become $push / $pull, assigned paths whose   *)
(*    value changed become $set.  It throws when no document matched.      *)
(*  - a transaction that is neither committed nor aborted by the client    *)
(*    is aborted by the server when its lifetime ends; until then it keeps *)
(*    its write locks.                                                     *)
(***************************************************************************)
EXTENDS Integers, Sequences, FiniteSets, TLC

\* ------------------------------------------------------------------ bounds
MaxRequests == 3
MaxPosts == 2
MaxComments == 2
\* Posts in the stores the read handlers are run against
MaxFeedPosts == 52

\* Request slots, the registered users, and the inputs requests are made with.
Procs == {1, 2}
Users == {"u1", "u2"}
NoUser == "u0"
NoPost == 0
\* who calls createPost / createComment (NoUser: an id no User document has)
Creators == {"u1", NoUser}
Commenters == {"u2", NoUser}
\* <<title, description>> of a new Post, and of an edit
NewContents == {<<"t1", "d1">>}
Contents == {<<"t1", "d1">>, <<"t2", "d2">>}
Addresses == {"a1", "a2", "a3"}
Images == {"i1"}
Comments == {"b1"}

\* ----------------------------------------------------------------- helpers
Null == [isNull |-> TRUE]

Range(s) == {s[i] : i \in DOMAIN s}

Count(x, s) == Cardinality({i \in DOMAIN s : s[i] = x})

\* util/location getCoordsFromAddress: an opaque, deterministic mapping of an
\* address to coordinates (two spellings of one place share coordinates).
getCoordsFromAddress(address) ==
  CASE address = "a1" -> "c1"
    [] address = "a2" -> "c2"
    [] address = "a3" -> "c2"

VARIABLES
  users,       \* User collection: id -> [posts, comments]
  posts,       \* Post collection: id -> document, for the ids that exist
  comments,    \* Comment collection: id -> document, for the ids that exist
  req,         \* per request slot: the handler's position and locals
  session,     \* per request slot: the mongoose session / transaction
  response,    \* the response sent by the step just taken, if it sent one
               \* (body: the ids of the documents of a list response)
  nextPost,    \* next fresh Post identifier
  nextComment, \* next fresh Comment identifier
  now,         \* Date.now(): a clock that has advanced at every reading
  started      \* number of requests received

vars == <<users, posts, comments, req, session, response, nextPost, nextComment, now, started>>
store == <<users, posts, comments>>

NoRequest ==
  [op |-> "none", pc |-> "done", userId |-> "", postId |-> 0,
   title |-> "", description |-> "", address |-> "", image |-> "", comment |-> "",
   coordinates |-> "", user |-> Null, filteredPost |-> Null,
   created |-> 0, createDate |-> 0, geocoded |-> FALSE]

NoSession == [state |-> "none", users |-> {}, posts |-> {}, staleUsers |-> {}, stalePosts |-> {}]

NoResponse ==
  [op |-> "none", result |-> "", failedAt |-> "", cause |-> "", created |-> 0,
   transaction |-> "none", body |-> <<>>, message |-> ""]

Init ==
  /\ users = [u \in Users |-> [posts |-> <<>>, comments |-> <<>>]]
  /\ posts = <<>>
  /\ comments = <<>>
  /\ req = [p \in Procs |-> NoRequest]
  /\ session = [p \in Procs |-> NoSession]
  /\ response = NoResponse
  /\ nextPost = 1
  /\ nextComment = 1
  /\ now = 0
  /\ started = 0

\* ------------------------------------------------------------ store rules
Pending(q) == session[q].state = "pending"

\* A document write-locked by a transaction other than p's.
UserLockedByOther(p, u) == \E q \in Procs \ {p} : Pending(q) /\ u \in session[q].users
PostLockedByOther(p, i) == \E q \in Procs \ {p} : Pending(q) /\ i \in session[q].posts

\* Variant: writes of different transactions to one Post never conflict.
PostConflictNever(p, i) == FALSE

\* A write of p's transaction conflicts: the document is locked by another
\* transaction or was changed by a commit after p's snapshot.
UserConflict(p, u) == UserLockedByOther(p, u) \/ u \in session[p].staleUsers
PostConflict(p, i) == PostLockedByOther(p, i) \/ i \in session[p].stalePosts

\* startSession + startTransaction: the snapshot is taken by the first write.
OpenSession == [NoSession EXCEPT !.state = "pending"]

\* p's write took effect (a commit, or a save outside a transaction) and p
\* holds no transaction any more; the documents us / ps it changed are stale
\* for every other transaction still in use.
SessionsAfter(p, us, ps) ==
  [q \in Procs |->
     IF q = p THEN NoSession
     ELSE IF Pending(q) /\ req[q].pc # "done"
          THEN [session[q] EXCEPT !.staleUsers = @ \cup us, !.stalePosts = @ \cup ps]
          ELSE session[q]]

Insert(coll, id, doc) == [i \in DOMAIN coll \cup {id} |-> IF i = id THEN doc ELSE coll[i]]

Remove(coll, id) == [i \in DOMAIN coll \ {id} |-> coll[i]]

\* Variant: the array of the loaded document, with x pushed, overwrites the
\* stored array ($set of the whole array).
ArrayPushLoaded(stored, loaded, x) == Append(loaded, x)

\* Variant: the push is left out.
ArrayPushDropped(stored, loaded, x) == stored

\* array.push(x); save(): $push applied to the stored array.
ArrayPush(stored, loaded, x) == Append(stored, x)

\* Variant: the array of the loaded document, with x pulled, overwrites the
\* stored array.
ArrayPullLoaded(stored, loaded, x) == SelectSeq(loaded, LAMBDA y : y # x)

\* array.pull(x); save(): $pull applied to the stored array.
ArrayPull(stored, loaded, x) == SelectSeq(stored, LAMBDA y : y # x)

\* Variant: save() without { session } writes the document at once.
SaveWithoutSession(coll, id, doc) == Insert(coll, id, doc)

\* doc.save({ session }) of a new document: buffered in the transaction.
SaveWithSession(coll, id, doc) == coll

\* Variant: remove() without { session } deletes the document at once.
RemoveWithoutSession(coll, id) == Remove(coll, id)

\* doc.remove({ session }): buffered in the transaction.
RemoveWithSession(coll, id) == coll

\* A step that sends no response.
Silent == response' = NoResponse

\* res.status(..).json(..) / next(error): the response leaves and the
\* handler's locals are gone.
Reply(p, kind, at, why, txn) ==
  /\ req' = [req EXCEPT ![p] = NoRequest]
  /\ response' = [op |-> req[p].op, result |-> kind, failedAt |-> at, cause |-> why,
                  created |-> req[p].created, transaction |-> txn,
                  body |-> <<>>, message |-> ""]

\* A write inside p's transaction threw.  On a write conflict the server has
\* aborted the transaction; on any other failure the handler leaves it open
\* (no abortTransaction on the catch path).
ThrowInSession(p, conflict, why) ==
  IF conflict
  THEN /\ session' = [session EXCEPT ![p] = NoSession]
       /\ Reply(p, "StoreError", req[p].pc, "conflict", "aborted")
  ELSE /\ session' = session
       /\ Reply(p, "StoreError", req[p].pc, why, "pending")

CanStart(p) ==
  /\ req[p].pc = "done"
  /\ ~Pending(p)
  /\ started < MaxRequests

\* express-validator rejected the request (422), lines 73-76 and the like
Invalid(p, op) ==
  /\ response' = [NoResponse EXCEPT !.op = op, !.result = "ValidationError"]
  /\ UNCHANGED req

\* --------------------------------------------------------------- createPost
\* lines 72-80: validation, then await getCoordsFromAddress(address)
createPost(p) ==
  /\ CanStart(p)
  /\ nextPost + Cardinality({q \in Procs : req[q].pc = "cp_geocode"}) <= MaxPosts
  /\ started' = started + 1
  /\ \E userId \in Creators, c \in NewContents, address \in Addresses,
        image \in Images, valid \in BOOLEAN :
       IF valid
       THEN /\ req' = [req EXCEPT ![p] =
                 [NoRequest EXCEPT !.op = "createPost", !.pc = "cp_geocode",
                    !.userId = userId, !.title = c[1], !.description = c[2],
                    !.address = address, !.image = image]]
            /\ Silent
       ELSE Invalid(p, "createPost")
  /\ UNCHANGED <<store, session, nextPost, nextComment, now>>

\* lines 80, 85-97: the Geocoder answered; createdPlace is constructed with a
\* fresh _id and the current time, then await UserModel.findById
createPostGeocoded(p) ==
  /\ req[p].pc = "cp_geocode"
  /\ req' = [req EXCEPT ![p] =
       [@ EXCEPT !.pc = "cp_findUser", !.geocoded = TRUE,
                 !.coordinates = getCoordsFromAddress(req[p].address),
                 !.created = nextPost, !.createDate = now]]
  /\ nextPost' = nextPost + 1
  /\ now' = now + 1
  /\ Silent
  /\ UNCHANGED <<store, session, nextComment, started>>

\* lines 81-83: the Geocoder failed; its error goes to the caller
createPostGeocodeFailed(p) ==
  /\ req[p].pc = "cp_geocode"
  /\ Reply(p, "GeocodeError", "cp_geocode", "geocoder", "none")
  /\ UNCHANGED <<store, session, nextPost, nextComment, now, started>>

\* lines 85-93
createdPlace(p) ==
  [title |-> req[p].title, description |-> req[p].description,
   creatorId |-> req[p].userId, address |-> req[p].address,
   coordinates |-> req[p].coordinates, createDate |-> req[p].createDate,
   image |-> req[p].image, comments |-> <<>>]

\* lines 96-97, 102-105: findById answered (a document or null); the session
\* is started and createdPlace.save({ session }) is awaited
createPostFindUser(p) ==
  /\ req[p].pc = "cp_findUser"
  /\ req' = [req EXCEPT ![p] =
       [@ EXCEPT !.pc = "cp_savePost",
                 !.user = IF req[p].userId \in DOMAIN users
                          THEN users[req[p].userId] ELSE Null]]
  /\ Silent
  /\ UNCHANGED <<store, session, nextPost, nextComment, now, started>>

\* lines 98-100: findById threw
createPostFindUserFailed(p) ==
  /\ req[p].pc = "cp_findUser"
  /\ Reply(p, "NotFound", "cp_findUser", "store", "none")
  /\ UNCHANGED <<store, session, nextPost, nextComment, now, started>>

\* lines 103-107: the Post insert is done inside the transaction; then
\* user!.posts.push(createdPlace) (a TypeError when user is null, caught at
\* line 109) and user.save({ session }) is awaited
createPostSavePost(p) ==
  /\ req[p].pc = "cp_savePost"
  /\ posts' = SaveWithSession(posts, req[p].created, createdPlace(p))
  /\ session' = [session EXCEPT ![p] = OpenSession]
  /\ IF req[p].user = Null
     THEN Reply(p, "StoreError", "cp_saveUser", "null", "pending")
     ELSE /\ req' = [req EXCEPT ![p].pc = "cp_saveUser"]
          /\ Silent
  /\ UNCHANGED <<users, comments, nextPost, nextComment, now, started>>

\* lines 105, 109-113: the Post insert threw
createPostSavePostFailed(p) ==
  /\ req[p].pc = "cp_savePost"
  /\ session' = [session EXCEPT ![p] = OpenSession]
  /\ Reply(p, "StoreError", "cp_savePost", "store", "pending")
  /\ UNCHANGED <<store, nextPost, nextComment, now, started>>

\* lines 107-108: the User update ($push) is done inside the transaction
createPostSaveUser(p) ==
  /\ req[p].pc = "cp_saveUser"
  /\ ~UserConflict(p, req[p].userId)
  /\ session' = [session EXCEPT ![p].users = @ \cup {req[p].userId}]
  /\ req' = [req EXCEPT ![p].pc = "cp_commit"]
  /\ Silent
  /\ UNCHANGED <<store, nextPost, nextComment, now, started>>

\* lines 107, 109-113: the User update threw
createPostSaveUserFailed(p) ==
  /\ req[p].pc = "cp_saveUser"
  /\ \E conflict \in {UserConflict(p, req[p].userId), FALSE} :
       ThrowInSession(p, conflict, "store")
  /\ UNCHANGED <<store, nextPost, nextComment, now, started>>

\* lines 108, 115: commitTransaction; both writes become visible; 201
createPostCommit(p) ==
  /\ req[p].pc = "cp_commit"
  /\ posts' = Insert(posts, req[p].created, createdPlace(p))
  /\ users' = [users EXCEPT ![req[p].userId].posts =
                 ArrayPush(@, req[p].user.posts, req[p].created)]
  /\ session' = SessionsAfter(p, {req[p].userId}, {})
  /\ Reply(p, "Created", "", "", "committed")
  /\ UNCHANGED <<comments, nextPost, nextComment, now, started>>

\* lines 108-113: commitTransaction threw
createPostCommitFailed(p) ==
  /\ req[p].pc = "cp_commit"
  /\ ThrowInSession(p, FALSE, "store")
  /\ UNCHANGED <<store, nextPost, nextComment, now, started>>

\* The identifiers a request can name: those handed out so far, and one that
\* was never handed out.
KnownPostIds == (1..(nextPost - 1)) \cup {NoPost}

\* ----------------------------------------------------------------- editPost
\* lines 118-132: validation, then await PostModel.findById(postId)
editPost(p) ==
  /\ CanStart(p)
  /\ started' = started + 1
  /\ \E postId \in KnownPostIds, userId \in Users, c \in Contents,
        address \in Addresses, valid \in BOOLEAN :
       IF valid
       THEN /\ req' = [req EXCEPT ![p] =
                 [NoRequest EXCEPT !.op = "editPost", !.pc = "ep_find",
                    !.postId = postId, !.userId = userId, !.title = c[1],
                    !.description = c[2], !.address = address]]
            /\ Silent
       ELSE Invalid(p, "editPost")
  /\ UNCHANGED <<store, session, nextPost, nextComment, now>>

\* Variant: only a missing Post is turned away.
NotCreatorNullOnly(userId, filteredPost) == filteredPost = Null

\* line 137: req.userData.userId !== filteredPost?.creatorId.toString()
\* (with filteredPost null the right side is undefined)
NotCreator(userId, filteredPost) ==
  IF filteredPost = Null THEN TRUE ELSE userId # filteredPost.creatorId

\* Variant: every edit is taken to change the address.
AddressChangedAlways(filteredPost, address) == TRUE

\* line 143: filteredPost!.address !== address
AddressChanged(filteredPost, address) == filteredPost.address # address

\* lines 132, 137-145, 158-164: findById answered (a document or null); the
\* ownership test; then either the Geocoder is awaited (address changed) or
\* title and description are assigned and save() is awaited
editPostFind(p) ==
  /\ req[p].pc = "ep_find"
  /\ LET filteredPost == IF req[p].postId \in DOMAIN posts
                         THEN posts[req[p].postId] ELSE Null
     IN IF NotCreator(req[p].userId, filteredPost)
        THEN Reply(p, "Unauthorized", "ep_find",
                   IF filteredPost = Null THEN "null" ELSE "owner", "none")
        ELSE /\ req' = [req EXCEPT ![p] =
                  [@ EXCEPT !.filteredPost = filteredPost,
                            !.pc = IF AddressChanged(filteredPost, req[p].address)
                                   THEN "ep_geocode" ELSE "ep_save"]]
             /\ Silent
  /\ UNCHANGED <<store, session, nextPost, nextComment, now, started>>

\* lines 133-135: findById threw
editPostFindFailed(p) ==
  /\ req[p].pc = "ep_find"
  /\ Reply(p, "NotFound", "ep_find", "store", "none")
  /\ UNCHANGED <<store, session, nextPost, nextComment, now, started>>

\* lines 145-149, 164: the Geocoder answered; the four fields are assigned and
\* save() is awaited
editPostGeocoded(p) ==
  /\ req[p].pc = "ep_geocode"
  /\ req' = [req EXCEPT ![p] =
       [@ EXCEPT !.pc = "ep_save", !.geocoded = TRUE,
                 !.coordinates = getCoordsFromAddress(req[p].address)]]
  /\ Silent
  /\ UNCHANGED <<store, session, nextPost, nextComment, now, started>>

\* Variant: title and description are saved although the Geocoder failed.
editPostGeocodeFailedSaves(p) ==
  /\ req[p].pc = "ep_geocode"
  /\ req[p].postId \in DOMAIN posts
  /\ posts' = [posts EXCEPT ![req[p].postId].title = req[p].title,
                            ![req[p].postId].description = req[p].description]
  /\ Reply(p, "GeocodeError", "ep_geocode", "geocoder", "none")
  /\ UNCHANGED <<users, comments, session, nextPost, nextComment, now, started>>

\* lines 150-157: the Geocoder failed; nothing was assigned, nothing is saved
editPostGeocodeFailed(p) ==
  /\ req[p].pc = "ep_geocode"
  /\ Reply(p, "GeocodeError", "ep_geocode", "geocoder", "none")
  /\ UNCHANGED <<store, session, nextPost, nextComment, now, started>>

\* lines 143-161: the loaded document after the handler's assignments
editedPost(p) ==
  IF AddressChanged(req[p].filteredPost, req[p].address)
  THEN [req[p].filteredPost EXCEPT !.title = req[p].title,
                                   !.description = req[p].description,
                                   !.coordinates = req[p].coordinates,
                                   !.address = req[p].address]
  ELSE [req[p].filteredPost EXCEPT !.title = req[p].title,
                                   !.description = req[p].description]

\* Variant: save() writes the whole loaded document over the stored one.
DocSaveWhole(stored, loaded, edited) == edited

\* save() of a loaded document: $set of the paths whose value was changed
DocSave(stored, loaded, edited) ==
  [f \in DOMAIN stored |-> IF edited[f] # loaded[f] THEN edited[f] ELSE stored[f]]

\* Variant: save() writes the document whether or not one is stored (upsert).
editPostSaveUpsert(p) ==
  /\ req[p].pc = "ep_save"
  /\ ~PostLockedByOther(p, req[p].postId)
  /\ posts' = Insert(posts, req[p].postId, editedPost(p))
  /\ session' = SessionsAfter(p, {}, {req[p].postId})
  /\ Reply(p, "OK", "", "", "none")
  /\ UNCHANGED <<users, comments, nextPost, nextComment, now, started>>

\* lines 164, 171: save() outside any transaction; it waits while a
\* transaction holds the document; 200
editPostSave(p) ==
  /\ req[p].pc = "ep_save"
  /\ req[p].postId \in DOMAIN posts
  /\ ~PostLockedByOther(p, req[p].postId)
  /\ posts' = [posts EXCEPT ![req[p].postId] =
                 DocSave(@, req[p].filteredPost, editedPost(p))]
  /\ session' = SessionsAfter(p, {}, {req[p].postId})
  /\ Reply(p, "OK", "", "", "none")
  /\ UNCHANGED <<users, comments, nextPost, nextComment, now, started>>

\* lines 164-169: save() threw: no document matched, or the store failed
editPostSaveFailed(p) ==
  /\ req[p].pc = "ep_save"
  /\ Reply(p, "StoreError", "ep_save",
           IF req[p].postId \in DOMAIN posts THEN "store" ELSE "missing", "none")
  /\ UNCHANGED <<store, session, nextPost, nextComment, now, started>>

\* --------------------------------------------------------------- deletePost
\* lines 174-186: await PostModel.findById(postId).populate("creatorId")
deletePost(p) ==
  /\ CanStart(p)
  /\ started' = started + 1
  /\ \E postId \in KnownPostIds, userId \in Users :
       req' = [req EXCEPT ![p] =
         [NoRequest EXCEPT !.op = "deletePost", !.pc = "dp_find",
            !.postId = postId, !.userId = userId]]
  /\ Silent
  /\ UNCHANGED <<store, session, nextPost, nextComment, now>>

\* Variant: without the test of line 192 a missing Post falls into the
\* ownership test.
deletePostFindNoNullTest(p) ==
  /\ req[p].pc = "dp_find"
  /\ IF req[p].postId \notin DOMAIN posts
        \/ posts[req[p].postId].creatorId # req[p].userId
     THEN Reply(p, "Unauthorized", "dp_find", "owner", "none")
     ELSE /\ req' = [req EXCEPT ![p] =
               [@ EXCEPT !.pc = "dp_remove", !.filteredPost = posts[req[p].postId],
                         !.user = users[posts[req[p].postId].creatorId]]]
          /\ Silent
  /\ UNCHANGED <<store, session, nextPost, nextComment, now, started>>

\* lines 186, 192-205: the Post and, in creatorId, its creator's User document
\* are loaded; not found / not the creator; else the session is started and
\* filteredPost.remove({ session }) is awaited
deletePostFind(p) ==
  /\ req[p].pc = "dp_find"
  /\ IF req[p].postId \notin DOMAIN posts
     THEN Reply(p, "NotFound", "dp_find", "null", "none")
     ELSE IF posts[req[p].postId].creatorId # req[p].userId
     THEN Reply(p, "Unauthorized", "dp_find", "owner", "none")
     ELSE /\ req' = [req EXCEPT ![p] =
               [@ EXCEPT !.pc = "dp_remove", !.filteredPost = posts[req[p].postId],
                         !.user = users[posts[req[p].postId].creatorId]]]
          /\ Silent
  /\ UNCHANGED <<store, session, nextPost, nextComment, now, started>>

\* lines 187-191: the lookup threw
deletePostFindFailed(p) ==
  /\ req[p].pc = "dp_find"
  /\ Reply(p, "StoreError", "dp_find", "store", "none")
  /\ UNCHANGED <<store, session, nextPost, nextComment, now, started>>

\* lines 203-209: the Post delete is done inside the transaction;
\* creatorId.posts.pull(filteredPost); creatorId.save({ session }) is awaited
deletePostRemove(p) ==
  /\ req[p].pc = "dp_remove"
  /\ ~PostConflict(p, req[p].postId)
  /\ posts' = RemoveWithSession(posts, req[p].postId)
  /\ session' = [session EXCEPT ![p] =
       [OpenSession EXCEPT !.posts = {req[p].postId} \cap DOMAIN posts]]
  /\ req' = [req EXCEPT ![p].pc = "dp_saveUser"]
  /\ Silent
  /\ UNCHANGED <<users, comments, nextPost, nextComment, now, started>>

\* lines 205, 213-217: the Post delete threw
deletePostRemoveFailed(p) ==
  /\ req[p].pc = "dp_remove"
  /\ \E conflict \in {PostConflict(p, req[p].postId), FALSE} :
       IF conflict
       THEN ThrowInSession(p, TRUE, "conflict")
       ELSE /\ session' = [session EXCEPT ![p] = OpenSession]
            /\ Reply(p, "StoreError", "dp_remove", "store", "pending")
  /\ UNCHANGED <<store, nextPost, nextComment, now, started>>

\* lines 209-212: the User update ($pull) is done inside the transaction
deletePostSaveUser(p) ==
  /\ req[p].pc = "dp_saveUser"
  /\ ~UserConflict(p, req[p].filteredPost.creatorId)
  /\ session' = [session EXCEPT ![p].users = @ \cup {req[p].filteredPost.creatorId}]
  /\ req' = [req EXCEPT ![p].pc = "dp_commit"]
  /\ Silent
  /\ UNCHANGED <<store, nextPost, nextComment, now, started>>

\* lines 209, 213-217: the User update threw
deletePostSaveUserFailed(p) ==
  /\ req[p].pc = "dp_saveUser"
  /\ \E conflict \in {UserConflict(p, req[p].filteredPost.creatorId), FALSE} :
       ThrowInSession(p, conflict, "store")
  /\ UNCHANGED <<store, nextPost, nextComment, now, started>>

\* Variant: the delete cascades to the Comments on the Post and to the
\* comment lists that name them.
deletePostCommitCascade(p) ==
  /\ req[p].pc = "dp_commit"
  /\ posts' = Remove(posts, req[p].postId)
  /\ comments' = [c \in {c \in DOMAIN comments : comments[c].post # req[p].postId}
                    |-> comments[c]]
  /\ users' = [u \in Users |->
       [posts |-> IF u = req[p].filteredPost.creatorId
                  THEN ArrayPull(users[u].posts, req[p].user.posts, req[p].postId)
                  ELSE users[u].posts,
        comments |-> SelectSeq(users[u].comments, LAMBDA c : c \in DOMAIN comments')]]
  /\ session' = SessionsAfter(p, {req[p].filteredPost.creatorId}, {req[p].postId})
  /\ Reply(p, "OK", "", "", "committed")
  /\ UNCHANGED <<nextPost, nextComment, now, started>>

\* lines 212, 224: commitTransaction; both writes become visible; 200
deletePostCommit(p) ==
  /\ req[p].pc = "dp_commit"
  /\ posts' = Remove(posts, req[p].postId)
  /\ users' = [users EXCEPT ![req[p].filteredPost.creatorId].posts =
                 ArrayPull(@, req[p].user.posts, req[p].postId)]
  /\ session' = SessionsAfter(p, {req[p].filteredPost.creatorId}, {req[p].postId})
  /\ Reply(p, "OK", "", "", "committed")
  /\ UNCHANGED <<comments, nextPost, nextComment, now, started>>

\* lines 212-217: commitTransaction threw
deletePostCommitFailed(p) ==
  /\ req[p].pc = "dp_commit"
  /\ ThrowInSession(p, FALSE, "store")
  /\ UNCHANGED <<store, nextPost, nextComment, now, started>>

\* ------------------------------------------------------------ createComment
\* lines 227-249: validation; createdComment is constructed with a fresh _id
\* and the current time; then await UserModel.findById
createComment(p) ==
  /\ CanStart(p)
  /\ nextComment <= MaxComments
  /\ started' = started + 1
  /\ \E userId \in Commenters, postId \in KnownPostIds, comment \in Comments,
        valid \in BOOLEAN :
       IF valid
       THEN /\ req' = [req EXCEPT ![p] =
                 [NoRequest EXCEPT !.op = "createComment", !.pc = "cc_findUser",
                    !.userId = userId, !.postId = postId, !.comment = comment,
                    !.created = nextComment, !.createDate = now]]
            /\ nextComment' = nextComment + 1
            /\ now' = now + 1
            /\ Silent
       ELSE /\ Invalid(p, "createComment")
            /\ UNCHANGED <<nextComment, now>>
  /\ UNCHANGED <<store, session, nextPost>>

\* lines 240-245
createdComment(p) ==
  [creatorId |-> req[p].userId, createDate |-> req[p].createDate,
   comment |-> req[p].comment, post |-> req[p].postId]

\* lines 249, 259: the User lookup answered; await PostModel.findById(postId)
createCommentFindUser(p) ==
  /\ req[p].pc = "cc_findUser"
  /\ req' = [req EXCEPT ![p] =
       [@ EXCEPT !.pc = "cc_findPost",
                 !.user = IF req[p].userId \in DOMAIN users
                          THEN users[req[p].userId] ELSE Null]]
  /\ Silent
  /\ UNCHANGED <<store, session, nextPost, nextComment, now, started>>

\* lines 251-255: the User lookup threw
createCommentFindUserFailed(p) ==
  /\ req[p].pc = "cc_findUser"
  /\ Reply(p, "NotFound", "cc_findUser", "store", "none")
  /\ UNCHANGED <<store, session, nextPost, nextComment, now, started>>

\* lines 259, 265-268: the Post lookup answered; the session is started and
\* createdComment.save({ session }) is awaited
createCommentFindPost(p) ==
  /\ req[p].pc = "cc_findPost"
  /\ req' = [req EXCEPT ![p] =
       [@ EXCEPT !.pc = "cc_saveComment",
                 !.filteredPost = IF req[p].postId \in DOMAIN posts
                                  THEN posts[req[p].postId] ELSE Null]]
  /\ Silent
  /\ UNCHANGED <<store, session, nextPost, nextComment, now, started>>

\* lines 261-263: the Post lookup threw
createCommentFindPostFailed(p) ==
  /\ req[p].pc = "cc_findPost"
  /\ Reply(p, "NotFound", "cc_findPost", "store", "none")
  /\ UNCHANGED <<store, session, nextPost, nextComment, now, started>>

\* lines 268-270: the Comment insert is done inside the transaction; then
\* user!.comments.push(createdComment) (a TypeError when user is null, caught
\* at line 274) and user.save({ session }) is awaited
createCommentSaveComment(p) ==
  /\ req[p].pc = "cc_saveComment"
  /\ comments' = SaveWithSession(comments, req[p].created, createdComment(p))
  /\ session' = [session EXCEPT ![p] = OpenSession]
  /\ IF req[p].user = Null
     THEN Reply(p, "StoreError", "cc_saveUser", "null", "pending")
     ELSE /\ req' = [req EXCEPT ![p].pc = "cc_saveUser"]
          /\ Silent
  /\ UNCHANGED <<users, posts, nextPost, nextComment, now, started>>

\* lines 268, 274-279: the Comment insert threw
createCommentSaveCommentFailed(p) ==
  /\ req[p].pc = "cc_saveComment"
  /\ session' = [session EXCEPT ![p] = OpenSession]
  /\ Reply(p, "StoreError", "cc_saveComment", "store", "pending")
  /\ UNCHANGED <<store, nextPost, nextComment, now, started>>

\* lines 270-272: the User update ($push) is done inside the transaction; then
\* post!.comments.push(createdComment) (a TypeError when post is null) and
\* post.save({ session }) is awaited
createCommentSaveUser(p) ==
  /\ req[p].pc = "cc_saveUser"
  /\ ~UserConflict(p, req[p].userId)
  /\ session' = [session EXCEPT ![p].users = @ \cup {req[p].userId}]
  /\ IF req[p].filteredPost = Null
     THEN Reply(p, "StoreError", "cc_savePost", "null", "pending")
     ELSE /\ req' = [req EXCEPT ![p].pc = "cc_savePost"]
          /\ Silent
  /\ UNCHANGED <<store, nextPost, nextComment, now, started>>

\* lines 270, 274-279: the User update threw
createCommentSaveUserFailed(p) ==
  /\ req[p].pc = "cc_saveUser"
  /\ \E conflict \in {UserConflict(p, req[p].userId), FALSE} :
       ThrowInSession(p, conflict, "store")
  /\ UNCHANGED <<store, nextPost, nextComment, now, started>>

\* lines 272-273: the Post update ($push) is done inside the transaction
createCommentSavePost(p) ==
  /\ req[p].pc = "cc_savePost"
  /\ ~PostConflict(p, req[p].postId)
  /\ req[p].postId \in DOMAIN posts
  /\ session' = [session EXCEPT ![p].posts = @ \cup {req[p].postId}]
  /\ req' = [req EXCEPT ![p].pc = "cc_commit"]
  /\ Silent
  /\ UNCHANGED <<store, nextPost, nextComment, now, started>>

\* lines 272, 274-279: the Post update threw: a write conflict, no document
\* matched, or the store failed
createCommentSavePostFailed(p) ==
  /\ req[p].pc = "cc_savePost"
  /\ \E conflict \in {PostConflict(p, req[p].postId), FALSE} :
       ThrowInSession(p, conflict,
                      IF req[p].postId \in DOMAIN posts THEN "store" ELSE "missing")
  /\ UNCHANGED <<store, nextPost, nextComment, now, started>>

\* lines 273, 281: commitTransaction; the three writes become visible; 201
createCommentCommit(p) ==
  /\ req[p].pc = "cc_commit"
  /\ comments' = Insert(comments, req[p].created, createdComment(p))
  /\ users' = [users EXCEPT ![req[p].userId].comments =
                 ArrayPush(@, req[p].user.comments, req[p].created)]
  /\ posts' = [posts EXCEPT ![req[p].postId].comments =
                 ArrayPush(@, req[p].filteredPost.comments, req[p].created)]
  /\ session' = SessionsAfter(p, {req[p].userId}, {req[p].postId})
  /\ Reply(p, "Created", "", "", "committed")
  /\ UNCHANGED <<nextPost, nextComment, now, started>>

\* lines 273-279: commitTransaction threw
createCommentCommitFailed(p) ==
  /\ req[p].pc = "cc_commit"
  /\ ThrowInSession(p, FALSE, "store")
  /\ UNCHANGED <<store, nextPost, nextComment, now, started>>

\* ------------------------------------------------------------- environment
\* The server aborts the transaction of a session its client abandoned
\* (transactionLifetimeLimitSeconds) and releases its write locks.
TxnExpire(p) ==
  /\ Pending(p)
  /\ req[p].pc = "done"
  /\ session' = [session EXCEPT ![p] = NoSession]
  /\ Silent
  /\ UNCHANGED <<store, req, nextPost, nextComment, now, started>>

Next ==
  \E p \in Procs :
    \/ createPost(p)
    \/ createPostGeocoded(p)
    \/ createPostGeocodeFailed(p)
    \/ createPostFindUser(p)
    \/ createPostFindUserFailed(p)
    \/ createPostSavePost(p)
    \/ createPostSavePostFailed(p)
    \/ createPostSaveUser(p)
    \/ createPostSaveUserFailed(p)
    \/ createPostCommit(p)
    \/ createPostCommitFailed(p)
    \/ editPost(p)
    \/ editPostFind(p)
    \/ editPostFindFailed(p)
    \/ editPostGeocoded(p)
    \/ editPostGeocodeFailed(p)
    \/ editPostSave(p)
    \/ editPostSaveFailed(p)
    \/ deletePost(p)
    \/ deletePostFind(p)
    \/ deletePostFindFailed(p)
    \/ deletePostRemove(p)
    \/ deletePostRemoveFailed(p)
    \/ deletePostSaveUser(p)
    \/ deletePostSaveUserFailed(p)
    \/ deletePostCommit(p)
    \/ deletePostCommitFailed(p)
    \/ createComment(p)
    \/ createCommentFindUser(p)
    \/ createCommentFindUserFailed(p)
    \/ createCommentFindPost(p)
    \/ createCommentFindPostFailed(p)
    \/ createCommentSaveComment(p)
    \/ createCommentSaveCommentFailed(p)
    \/ createCommentSaveUser(p)
    \/ createCommentSaveUserFailed(p)
    \/ createCommentSavePost(p)
    \/ createCommentSavePostFailed(p)
    \/ createCommentCommit(p)
    \/ createCommentCommitFailed(p)
    \/ TxnExpire(p)

Spec == Init /\ [][Next]_vars

\* ------------------------------------------------------------ read handlers
\* getFeed, getPostById, getPostsByUserId and getComments write nothing: what
\* they answer is a function of the store at their one await.  They are run
\* against the stores the writing handlers leave behind.

\* line 15: limit(50)
FeedLimit == 50

\* The ids a read request names.
ReadPostIds == {NoPost, 1, 2}
ReadUserIds == {"u1", NoUser}

Min(a, b) == IF a < b THEN a ELSE b

\* find(): the matching documents in natural (insertion) order, by id
Natural(ids) ==
  [k \in 1..Cardinality(ids) |->
     CHOOSE i \in ids : Cardinality({j \in ids : j < i}) = k - 1]

\* sort({ createDate: 1 }): ascending createDate, oldest first
SortByCreateDate(coll) ==
  LET ids == DOMAIN coll
      Before(i, j) == \/ coll[i].createDate < coll[j].createDate
                      \/ coll[i].createDate = coll[j].createDate /\ i < j
  IN [k \in 1..Cardinality(ids) |->
        CHOOSE i \in ids : Cardinality({j \in ids : Before(j, i)}) = k - 1]

\* limit(n)
Limit(s, n) == SubSeq(s, 1, Min(n, Len(s)))

\* res.status(200).json(..) of a read handler
ReplyBody(p, body, message) ==
  /\ req' = [req EXCEPT ![p] = NoRequest]
  /\ response' = [NoResponse EXCEPT !.op = req[p].op, !.result = "OK",
                                    !.body = body, !.message = message]

\* lines 11-15: await PostModel.find().sort({ createDate: 1 }).limit(50)
getFeed(p) ==
  /\ CanStart(p)
  /\ started' = started + 1
  /\ req' = [req EXCEPT ![p] = [NoRequest EXCEPT !.op = "getFeed", !.pc = "gf_find"]]
  /\ Silent
  /\ UNCHANGED <<store, session, nextPost, nextComment, now>>

\* lines 15-20: the query answered; 200 with the documents in its order
getFeedFind(p) ==
  /\ req[p].pc = "gf_find"
  /\ ReplyBody(p, Limit(SortByCreateDate(posts), FeedLimit), "")
  /\ UNCHANGED <<store, session, nextPost, nextComment, now, started>>

\* lines 21-23: the query threw
getFeedFindFailed(p) ==
  /\ req[p].pc = "gf_find"
  /\ Reply(p, "StoreError", "gf_find", "store", "none")
  /\ UNCHANGED <<store, session, nextPost, nextComment, now, started>>

\* lines 26-34: await PostModel.findById(postId)
getPostById(p) ==
  /\ CanStart(p)
  /\ started' = started + 1
  /\ \E postId \in ReadPostIds :
       req' = [req EXCEPT ![p] =
         [NoRequest EXCEPT !.op = "getPostById", !.pc = "gp_find", !.postId = postId]]
  /\ Silent
  /\ UNCHANGED <<store, session, nextPost, nextComment, now>>

\* lines 34-39: findById answered; filteredPosts!.toObject throws a TypeError
\* when it is null, caught at line 36 (404)
getPostByIdFind(p) ==
  /\ req[p].pc = "gp_find"
  /\ IF req[p].postId \in DOMAIN posts
     THEN ReplyBody(p, <<req[p].postId>>, "")
     ELSE Reply(p, "NotFound", "gp_find", "null", "none")
  /\ UNCHANGED <<store, session, nextPost, nextComment, now, started>>

\* lines 36-40: findById threw
getPostByIdFindFailed(p) ==
  /\ req[p].pc = "gp_find"
  /\ Reply(p, "NotFound", "gp_find", "store", "none")
  /\ UNCHANGED <<store, session, nextPost, nextComment, now, started>>

\* lines 43-51: await PostModel.find({ creatorId })
getPostsByUserId(p) ==
  /\ CanStart(p)
  /\ started' = started + 1
  /\ \E creatorId \in ReadUserIds :
       req' = [req EXCEPT ![p] =
         [NoRequest EXCEPT !.op = "getPostsByUserId", !.pc = "gu_find",
                           !.userId = creatorId]]
  /\ Silent
  /\ UNCHANGED <<store, session, nextPost, nextComment, now>>

\* lines 51, 58-69: the query answered; 404 when nothing matched, else 200
getPostsByUserIdFind(p) ==
  /\ req[p].pc = "gu_find"
  /\ LET filteredPosts ==
           Natural({i \in DOMAIN posts : posts[i].creatorId = req[p].userId})
     IN IF Len(filteredPosts) = 0
        THEN Reply(p, "NotFound", "gu_find", "empty", "none")
        ELSE ReplyBody(p, filteredPosts, "")
  /\ UNCHANGED <<store, session, nextPost, nextComment, now, started>>

\* lines 52-56: the query threw
getPostsByUserIdFindFailed(p) ==
  /\ req[p].pc = "gu_find"
  /\ Reply(p, "StoreError", "gu_find", "store", "none")
  /\ UNCHANGED <<store, session, nextPost, nextComment, now, started>>

\* lines 284-292: await CommentModel.find({ post }).populate("creatorId")
getComments(p) ==
  /\ CanStart(p)
  /\ started' = started + 1
  /\ \E post \in ReadPostIds :
       req' = [req EXCEPT ![p] =
         [NoRequest EXCEPT !.op = "getComments", !.pc = "gc_find", !.postId = post]]
  /\ Silent
  /\ UNCHANGED <<store, session, nextPost, nextComment, now>>

\* Variant: nothing matching is answered as an error, as getPostsByUserId does.
getCommentsFindEmptyIsError(p) ==
  /\ req[p].pc = "gc_find"
  /\ LET found == Natural({c \in DOMAIN comments : comments[c].post = req[p].postId})
     IN IF Len(found) = 0
        THEN Reply(p, "NotFound", "gc_find", "empty", "none")
        ELSE ReplyBody(p, found, "")
  /\ UNCHANGED <<store, session, nextPost, nextComment, now, started>>

\* lines 292, 299-307: the query answered; 200 { message: null } when nothing
\* matched, else 200 with the Comments
getCommentsFind(p) ==
  /\ req[p].pc = "gc_find"
  /\ LET found == Natural({c \in DOMAIN comments : comments[c].post = req[p].postId})
     IN IF Len(found) = 0
        THEN ReplyBody(p, <<>>, "null")
        ELSE ReplyBody(p, found, "")
  /\ UNCHANGED <<store, session, nextPost, nextComment, now, started>>

\* lines 293-298: the query threw
getCommentsFindFailed(p) ==
  /\ req[p].pc = "gc_find"
  /\ Reply(p, "StoreError", "gc_find", "store", "none")
  /\ UNCHANGED <<store, session, nextPost, nextComment, now, started>>

\* A store left by n createPost calls of u1 (ids and creation times in the
\* order of the calls), the deletePost of Post d if d > 0, and k createComment
\* calls of u2, the c-th on Post target[c] before any delete.
StoreAfter(n, d, k, target) ==
  LET on(i) == SelectSeq([c \in 1..k |-> c], LAMBDA c : target[c] = i)
      left == (1..n) \ {d}
  IN [users |-> [u \in Users |->
                   [posts |-> IF u = "u1" THEN Natural(left) ELSE <<>>,
                    comments |-> IF u = "u2" THEN [c \in 1..k |-> c] ELSE <<>>]],
      posts |-> [i \in left |->
                   [title |-> "t1", description |-> "d1", creatorId |-> "u1",
                    address |-> "a1", coordinates |-> getCoordsFromAddress("a1"),
                    createDate |-> i - 1, image |-> "i1", comments |-> on(i)]],
      comments |-> [c \in 1..k |->
                      [creatorId |-> "u2", createDate |-> n + c - 1,
                       comment |-> "b1", post |-> target[c]]]]

\* How many Posts were created: a few, or about as many as the feed's limit.
FeedSizes == (0..MaxPosts) \cup ((FeedLimit - 1)..MaxFeedPosts)

\* The read handlers start on such a store with no request under way.  Stores
\* with Comments are the small ones.
ReadInit ==
  \E n \in FeedSizes, d \in 0..1, k \in 0..MaxComments :
    \E target \in [1..k -> 1..2] :
      /\ d <= n
      /\ k > 0 => n <= MaxPosts
      /\ \A c \in 1..k : target[c] <= n
      /\ users = StoreAfter(n, d, k, target).users
      /\ posts = StoreAfter(n, d, k, target).posts
      /\ comments = StoreAfter(n, d, k, target).comments
      /\ req = [p \in Procs |-> NoRequest]
      /\ session = [p \in Procs |-> NoSession]
      /\ response = NoResponse
      /\ nextPost = n + 1
      /\ nextComment = k + 1
      /\ now = n + k
      /\ started = 0

ReadNext ==
  \E p \in Procs :
    \/ getFeed(p)
    \/ getFeedFind(p)
    \/ getFeedFindFailed(p)
    \/ getPostById(p)
    \/ getPostByIdFind(p)
    \/ getPostByIdFindFailed(p)
    \/ getPostsByUserId(p)
    \/ getPostsByUserIdFind(p)
    \/ getPostsByUserIdFindFailed(p)
    \/ getComments(p)
    \/ getCommentsFind(p)
    \/ getCommentsFindFailed(p)

ReadSpec == ReadInit /\ [][ReadNext]_vars

\* ================================================================== claims
\* Slot p took a step.
Stepped(p) == req'[p] # req[p]

\* Slot p sent its response in this step.
Replied(p) == req[p].pc # "done" /\ req'[p] = NoRequest

\* new is old with the one occurrence of x taken out, the rest in order.
RemovedFrom(old, new, x) ==
  IF x \in Range(old)
  THEN \E k \in DOMAIN old :
         /\ old[k] = x
         /\ new = [j \in 1..(Len(old) - 1) |-> IF j < k THEN old[j] ELSE old[j + 1]]
  ELSE new = old

\* ---- C1
C1_Step ==
  /\ \A i \in DOMAIN posts' \ DOMAIN posts :
       \E p \in Procs : /\ req[p].pc = "cp_commit"
                        /\ req[p].created = i
                        /\ response'.result = "Created"
  /\ (response'.op = "createPost" /\ response'.failedAt = "cp_saveUser") =>
       /\ response'.created \notin DOMAIN posts'
       /\ \A u \in Users : /\ users'[u].posts = users[u].posts
                           /\ response'.created \notin Range(users'[u].posts)

\* C1: when createPost's write of the owning User fails after the Post write
\* was issued inside the transaction, the step that fails leaves no Post record
\* of that call in the store and every User's post list as it was; and a Post
\* record only ever appears by the commit of the call that constructed it, so
\* none appears afterward either.
C1_AtomicCreatePost == [][C1_Step]_vars

\* A createPost whose User write failed (store failure between the two writes).
C1_Witness ==
  /\ response.op = "createPost"
  /\ response.failedAt = "cp_saveUser"
  /\ response.cause = "store"
  /\ response.result = "StoreError"

\* ---- C2
C2_Step ==
  \A p \in Procs :
    LET r == req[p] IN
    /\ (r.op = "createPost" /\ r.pc \in {"cp_savePost", "cp_saveUser", "cp_commit"}) =>
         ((r.created \in DOMAIN posts')
            <=> (r.userId \in Users /\ r.created \in Range(users'[r.userId].posts)))
    /\ (r.op = "deletePost" /\ r.pc \in {"dp_remove", "dp_saveUser", "dp_commit"}) =>
         ((r.postId \notin DOMAIN posts')
            <=> (r.postId \notin Range(users'[r.filteredPost.creatorId].posts)))
    /\ (r.op = "createComment"
          /\ r.pc \in {"cc_saveComment", "cc_saveUser", "cc_savePost", "cc_commit"}) =>
         LET a == r.created \in DOMAIN comments'
             b == r.userId \in Users /\ r.created \in Range(users'[r.userId].comments)
             c == r.postId \in DOMAIN posts'
                    /\ r.created \in Range(posts'[r.postId].comments)
         IN (a <=> b) /\ (b <=> c)

\* C2: whatever step is taken while a createPost, deletePost or createComment
\* is between its first write and its response, the store it leads to shows
\* either none or all of that operation's writes (Post + User list entry; Post
\* removal + User list entry removal; Comment + User list entry + Post list
\* entry), never some of them.
C2_NoPartialWrites == [][C2_Step]_vars

\* All three writes of a createComment are issued and uncommitted while
\* another request is about to read the store.
C2_Witness ==
  \E p, q \in Procs :
    /\ p # q
    /\ req[p].pc = "cc_commit"
    /\ req[q].pc \in {"ep_find", "dp_find", "cc_findUser", "cc_findPost", "cp_findUser"}

\* ---- C3
C3_Step ==
  \A p \in Procs :
    (/\ req[p].pc \in {"ep_find", "dp_find"}
     /\ req[p].postId \in DOMAIN posts
     /\ posts[req[p].postId].creatorId # req[p].userId
     /\ Stepped(p)
     /\ response'.cause # "store")
    => /\ response'.result = "Unauthorized"
       /\ Replied(p)
       /\ store' = store
       /\ session' = session

\* C3: editPost and deletePost on an existing Post by a requester who is not
\* its creator (the lookup having answered) reply Unauthorized in that very
\* step, which ends the request and leaves every User, Post and Comment
\* record as it was.
C3_NonOwnerRejected == [][C3_Step]_vars

\* A non-owner was turned away from an existing Post.
C3_Witness ==
  /\ response.op \in {"editPost", "deletePost"}
  /\ response.result = "Unauthorized"
  /\ response.cause = "owner"
  /\ posts # <<>>

\* ---- C4
\* C4: in every committed state, a Post id is in a User's post list exactly
\* when a Post record with that id exists and its creator is that User.
C4_PostListsMatchPosts ==
  \A u \in Users :
    \A i \in Range(users[u].posts) \cup DOMAIN posts :
      (i \in Range(users[u].posts)) <=> (i \in DOMAIN posts /\ posts[i].creatorId = u)

\* A createPost is about to commit although the User document it loaded
\* before opening its transaction is out of date (another request of the same
\* user committed in between).
C4_Witness ==
  \E p \in Procs :
    /\ req[p].op = "createPost"
    /\ req[p].pc = "cp_commit"
    /\ req[p].user.posts # users[req[p].userId].posts

\* ---- C5
C5_Inv ==
  \A c \in DOMAIN comments :
    /\ Count(c, users[comments[c].creatorId].comments) = 1
    /\ comments[c].post \in DOMAIN posts =>
         Count(c, posts[comments[c].post].comments) = 1

C5_Step ==
  \A p \in Procs :
    (/\ req[p].pc = "cc_commit"
     /\ Replied(p)
     /\ response'.result = "Created"
     /\ response'.created = req[p].created)
    => /\ req[p].created \in DOMAIN comments'
       /\ comments'[req[p].created].creatorId = req[p].userId
       /\ comments'[req[p].created].post = req[p].postId
       /\ Count(req[p].created, users'[req[p].userId].comments) = 1
       /\ req[p].postId \in DOMAIN posts'
       /\ Count(req[p].created, posts'[req[p].postId].comments) = 1

\* C5: the step in which a createComment(u, p, body) succeeds leaves a Comment
\* record with creator u and target post p, its id exactly once in u's comment
\* list and exactly once in p's comment list; and under every interleaving
\* each stored Comment stays exactly once in its creator's list and, while its
\* Post exists, exactly once in that Post's list.
C5_CommentFanOut == []C5_Inv /\ [][C5_Step]_vars

\* A createComment succeeded while another createComment on the same Post,
\* which loaded the Post before, is still under way.
C5_Witness ==
  /\ response.op = "createComment"
  /\ response.result = "Created"
  /\ \E q \in Procs :
       /\ req[q].op = "createComment"
       /\ req[q].user # Null
       /\ req[q].filteredPost # Null
       /\ req[q].postId \in DOMAIN posts
       /\ response.created \in Range(posts[req[q].postId].comments)
       /\ response.created \in Range(users[req[q].userId].comments)

\* ---- C6
C6_Step ==
  \A p \in Procs :
    /\ (/\ req[p].pc = "cp_commit"
        /\ Replied(p)
        /\ response'.result = "Created")
       => /\ users'[req[p].userId].posts
               = users[req[p].userId].posts \o <<req[p].created>>
          /\ Count(req[p].created, users'[req[p].userId].posts) = 1
          /\ Len(users'[req[p].userId].posts) = Len(users[req[p].userId].posts) + 1
    /\ (/\ req[p].pc = "dp_commit"
        /\ Replied(p)
        /\ response'.result = "OK")
       => LET u == req[p].filteredPost.creatorId IN
          /\ req[p].postId \notin Range(users'[u].posts)
          /\ RemovedFrom(users[u].posts, users'[u].posts, req[p].postId)

C7_AtSave(r) ==
  (r.op = "editPost" /\ r.pc = "ep_save") =>
    (r.geocoded <=> r.filteredPost.address # r.address)

C7_Step ==
  \A p \in Procs :
    /\ C7_AtSave(req[p])
    /\ C7_AtSave(req'[p])
    /\ (req[p].pc = "ep_find" /\ req'[p].pc = "ep_geocode") =>
         posts[req[p].postId].address # req[p].address
    /\ (req[p].pc = "ep_find" /\ req'[p].pc = "ep_save") =>
         /\ posts[req[p].postId].address = req[p].address
         /\ store' = store
    /\ (req[p].pc = "ep_geocode" /\ Stepped(p)) => store' = store
    /\ (req[p].pc = "ep_save" /\ Replied(p) /\ ~req[p].geocoded
          /\ req[p].postId \in DOMAIN posts) =>
         /\ posts'[req[p].postId].address = posts[req[p].postId].address
         /\ posts'[req[p].postId].coordinates = posts[req[p].postId].coordinates

\* C7: an authorized editPost awaits the Geocoder exactly when the new address
\* differs from the address of the Post it loaded: when it reaches save() it
\* has invoked the Geocoder iff the address differs, nothing is written before
\* the Geocoder has answered, and with an unchanged address the stored address
\* and coordinates are left as they are.
C7_GeocodeIffAddressChanged == [][C7_Step]_vars

\* An authorized editPost with a changed address has invoked the Geocoder and
\* is about to save.
C7_Witness ==
  \E p \in Procs :
    /\ req[p].op = "editPost"
    /\ req[p].pc = "ep_save"
    /\ req[p].geocoded
    /\ req[p].filteredPost.address # req[p].address

\* ---- C8
C8_Step ==
  \A p \in Procs :
    (req[p].pc \in {"cp_geocode", "ep_geocode"} /\ Replied(p))
    => /\ response'.result = "GeocodeError"
       /\ store' = store
       /\ nextPost' = nextPost

\* C8: when the Geocoder fails, createPost and editPost reply GeocodeError in
\* that step and nothing is written: every Post keeps its title, description,
\* address and coordinates, no Post record is created (none was even
\* constructed) and every User's post list is as it was.
C8_GeocodeFailureWritesNothing == [][C8_Step]_vars

\* An editPost with a changed address was answered GeocodeError.
C8_Witness ==
  /\ response.op = "editPost"
  /\ response.cause = "geocoder"
  /\ response.result = "GeocodeError"

\* ---- C9
C9_Step ==
  \A p \in Procs :
    (/\ req[p].op = "createPost"
     /\ req[p].pc = "cp_savePost"
     /\ req[p].user = Null
     /\ Replied(p)
     /\ response'.cause # "store")
    => /\ response'.result = "NotFound"
       /\ req[p].created \notin DOMAIN posts'

\* C9: createPost with a creatorId for which the user lookup returned no
\* record replies NotFound, and no Post is persisted.
C9_MissingUserIsNotFound == [][C9_Step]_vars

\* ---- C10
C10_Step ==
  \A p \in Procs :
    (/\ req[p].pc = "ep_find"
     /\ req[p].postId \notin DOMAIN posts
     /\ Stepped(p)
     /\ response'.cause # "store")
    => /\ response'.result = "NotFound"
       /\ store' = store

\* C10: editPost with a postId for which the lookup returned no record replies
\* NotFound, not Unauthorized or any other kind, and the store is unchanged.
C10_MissingPostIsNotFound == [][C10_Step]_vars

\* ---- C11
C11_Step ==
  \A p \in Procs :
    (/\ req[p].op = "createComment"
     /\ req[p].pc \in {"cc_saveComment", "cc_saveUser", "cc_savePost", "cc_commit"}
     /\ (req[p].user = Null \/ req[p].filteredPost = Null)
     /\ Replied(p)
     /\ response'.cause \notin {"store", "conflict"})
    => /\ response'.result = "NotFound"
       /\ req[p].created \notin DOMAIN comments'
       /\ \A u \in Users : users'[u].comments = users[u].comments
       /\ \A i \in DOMAIN posts : i \in DOMAIN posts'
                                   /\ posts'[i].comments = posts[i].comments

\* C11: createComment whose user lookup or post lookup returned no record
\* replies NotFound, no Comment record of the call is persisted and no
\* comment list changes.
C11_MissingUserOrPostIsNotFound == [][C11_Step]_vars

\* ---- C12
C12_Step ==
  \A p \in Procs :
    (/\ req[p].pc = "dp_find"
     /\ req[p].postId \notin DOMAIN posts
     /\ Stepped(p)
     /\ response'.cause # "store")
    => /\ response'.result = "NotFound"
       /\ Replied(p)
       /\ store' = store
       /\ session' = session

\* C12: deletePost with a postId for which no Post exists replies NotFound in
\* the step of its lookup, which ends the request, leaves every User, Post
\* and Comment record as it was and opens no transaction.
C12_DeleteMissingIsNotFound == [][C12_Step]_vars

\* A deletePost of a missing Post was answered NotFound while Posts exist.
C12_Witness ==
  /\ response.op = "deletePost"
  /\ response.result = "NotFound"
  /\ response.cause = "null"
  /\ response.transaction = "none"
  /\ posts # <<>>

\* ---- C13
C13_Step ==
  \A p \in Procs :
    (/\ req[p].pc = "gf_find"
     /\ Replied(p)
     /\ response'.cause # "store")
    => LET feed == response'.body IN
       /\ response'.result = "OK"
       /\ Range(feed) \subseteq DOMAIN posts
       /\ Len(feed) = Min(FeedLimit, Cardinality(DOMAIN posts))
       /\ Cardinality(Range(feed)) = Len(feed)
       /\ \A k \in 1..(Len(feed) - 1) :
            posts[feed[k]].createDate >= posts[feed[k + 1]].createDate
       /\ \A i \in DOMAIN posts \ Range(feed) :
            \A j \in Range(feed) : posts[i].createDate <= posts[j].createDate

\* C13: getFeed answers with the stored Posts newest first by creation
\* time, capped at 50: the 50 most recently created ones when more exist,
\* the most recent first.
C13_FeedNewestFirst == [][C13_Step]_vars

\* ---- C14
C14_Step ==
  \A p \in Procs :
    (/\ req[p].pc = "gc_find"
     /\ Replied(p))
    => LET matching == {c \in DOMAIN comments : comments[c].post = req[p].postId}
       IN IF response'.cause = "store"
          THEN response'.result = "StoreError"
          ELSE /\ response'.result = "OK"
               /\ Range(response'.body) = matching
               /\ Len(response'.body) = Cardinality(matching)
               /\ (response'.message = "null") <=> (matching = {})

\* C14: getComments on a postId no Comment targets answers with success and
\* the explicit signal { message: null }, which the answer to a store failure
\* (StoreError) and the answer carrying Comments do not have; when Comments
\* target the postId it answers with exactly those Comments, each once.
C14_NoCommentsIsNotAnError == [][C14_Step]_vars

\* getComments answered "no comments" for a Post while Comments on another
\* Post are stored.
C14_Witness ==
  /\ response.op = "getComments"
  /\ response.result = "OK"
  /\ response.message = "null"
  /\ comments # <<>>

\* ---- C15
\* C15: once createPost, deletePost or createComment has reported its result
\* to the caller, the transaction it opened is committed or aborted: none is
\* still pending.
C15_NoPendingAfterReply ==
  \A p \in Procs : req[p].pc = "done" => ~Pending(p)

\* ---- C16
C16_Step ==
  \A p \in Procs :
    (/\ req[p].pc = "cc_commit"
     /\ Replied(p)
     /\ response'.result = "Created")
    => /\ req[p].postId \in DOMAIN posts
       /\ req[p].postId \in DOMAIN posts'
       /\ req[p].userId \in DOMAIN users
       /\ req[p].userId \in DOMAIN users'

\* C16: in the step in which a createComment transaction commits, the
\* Comment's target Post and its creator User exist in the store, before and
\* after the commit, whatever a concurrent deletePost of that Post has done.
C16_CommentTargetsExistAtCommit == [][C16_Step]_vars

\* A createComment committed while a deletePost that has loaded the same Post
\* is about to remove it.
C16_Witness ==
  /\ response.op = "createComment"
  /\ response.result = "Created"
  /\ response.created \in DOMAIN comments
  /\ \E q \in Procs :
       /\ req[q].op = "deletePost"
       /\ req[q].pc = "dp_remove"
       /\ req[q].postId = comments[response.created].post

\* ---- C17
\* C17: in every store state each stored Post's coordinates are the
\* Geocoder's result for that Post's stored address.
C17_CoordinatesMatchAddress ==
  \A i \in DOMAIN posts :
    posts[i].coordinates = getCoordsFromAddress(posts[i].address)

\* ---- C18
C18_Step ==
  \A p \in Procs :
    (/\ req[p].pc = "dp_commit"
     /\ Replied(p)
     /\ response'.result = "OK")
    => /\ comments' = comments
       /\ \A u \in Users : users'[u].comments = users[u].comments
       /\ \A u \in Users \ {req[p].filteredPost.creatorId} : users'[u] = users[u]
       /\ DOMAIN posts' = DOMAIN posts \ {req[p].postId}
       /\ \A i \in DOMAIN posts' : posts'[i] = posts[i]
       /\ RemovedFrom(users[req[p].filteredPost.creatorId].posts,
                      users'[req[p].filteredPost.creatorId].posts, req[p].postId)

\* C18: the step in which a deletePost succeeds removes only the Post record
\* and its id from the owning User's post list: every Comment record, those
\* targeting the deleted Post included, every User's comment list, every
\* other Post and every other User are as they were.
C18_DeleteLeavesComments == [][C18_Step]_vars

\* A deletePost succeeded on a Post that had a Comment: the Comment record
\* and its entry in the commenter's list are still there.
C18_Witness ==
  /\ response.op = "deletePost"
  /\ response.result = "OK"
  /\ \E c \in DOMAIN comments :
       /\ comments[c].post \notin DOMAIN posts
       /\ c \in Range(users[comments[c].creatorId].comments)

\* ---- C19
C19_Step ==
  \A p \in Procs :
    (/\ req[p].pc = "ep_save"
     /\ Replied(p)
     /\ response'.result = "OK")
    => LET i == req[p].postId IN
       /\ users' = users
       /\ comments' = comments
       /\ DOMAIN posts' = DOMAIN posts
       /\ \A j \in DOMAIN posts \ {i} : posts'[j] = posts[j]
       /\ posts'[i].creatorId = posts[i].creatorId
       /\ posts'[i].createDate = posts[i].createDate
       /\ posts'[i].image = posts[i].image
       /\ posts'[i].comments = posts[i].comments

\* C19: the step in which an editPost succeeds changes at most the title,
\* description, address and coordinates of its Post: the Post's creator id,
\* creation time, image and comment list are those stored just before the
\* write (so a Comment id committed after the edit's read stays in the list),
\* and every other Post, every User and every Comment is as it was.
C19_EditTouchesFourFields == [][C19_Step]_vars

\* An editPost is about to write a Post whose comment list has changed since
\* the edit read it (a createComment on the Post committed in between).
C19_Witness ==
  \E p \in Procs :
    /\ req[p].op = "editPost"
    /\ req[p].pc = "ep_save"
    /\ req[p].postId \in DOMAIN posts
    /\ ~PostLockedByOther(p, req[p].postId)
    /\ req[p].filteredPost.comments # posts[req[p].postId].comments

\* ---- C20
\* Post id i was handed out, no Post record has it, and no createPost that
\* could still insert it is under way.
C20_Gone(i) ==
  /\ i \in 1..(nextPost - 1)
  /\ i \notin DOMAIN posts
  /\ \A p \in Procs : ~(req[p].op = "createPost" /\ req[p].created = i)

C20_Step ==
  /\ \A i \in 1..(nextPost - 1) :
       /\ (i \in DOMAIN posts /\ i \notin DOMAIN posts') => C20_Gone(i)'
       /\ C20_Gone(i) => C20_Gone(i)'
  /\ \A p \in Procs :
       (/\ req[p].op \in {"editPost", "createComment"}
        /\ req[p].filteredPost # Null
        /\ req[p].postId \notin DOMAIN posts
        /\ Replied(p))
       => /\ response'.result \notin {"OK", "Created"}
          /\ posts' = posts

\* C20: a Post record removed from the store is gone for good: its id never
\* has a Post record again in any later step; and an editPost or
\* createComment that read the Post before the delete and finishes after it
\* neither writes a Post nor reports success.
C20_DeletedStaysDeleted == [][C20_Step]_vars

\* An editPost that had read the Post found it deleted at its write.
C20_Witness ==
  /\ response.op = "editPost"
  /\ response.result = "StoreError"
  /\ response.cause = "missing"
  /\ \E i \in 1..(nextPost - 1) : C20_Gone(i)

====
